---- MODULE Spec2Model ----
(***************************************************************************)
(* A model of the chat Session state machine, the CODE.AWS command         *)
(* injector (withClient / login), the URI / URL formatting functions of    *)
(* the toolkit, the log stream document provider, the status bar and the   *)
(* /connect/caws URI handler.                                              *)
(*                                                                         *)
(* The strings of a CloudWatch Logs URI are sequences of UTF-16 code       *)
(* units; a string that is only put together from whole pieces is a        *)
(* sequence of those pieces, one that is only stored and compared a TLA+   *)
(* string.                                                                 *)
(***************************************************************************)
EXTENDS Integers, Sequences, FiniteSets, Bags, TLC

VARIABLES
    session,    \* the fields of the Session object (cawsStatusbar.ts:61-85)
    world,      \* what the Session has done to its collaborators
    last,       \* the last Session call and how it ended
    auth,       \* the authentication provider: its sessions, the active one
    cmd,        \* the call of login / logout / withClient that took the last step
    pending,    \* the calls of login / withClient in flight: a bag
    uriA,       \* a log stream document: its arguments and the URI made of them
    uriB,       \* a second log stream document
    url,        \* a CODE.AWS resource and the URL made for it
    provider,   \* the log stream document provider and its registry
    bar,        \* the status bar item and the sessions it is told about
    connect,    \* a /connect/caws URI: its query, the calls handling it made
    calls       \* the preloader and send calls in flight: a bag

sessionVars == <<session, world, last>>
commandVars == <<auth, cmd, pending>>
uriVars == <<uriA, uriB>>
adapterVars == <<provider, bar, connect, calls>>
vars == <<session, world, last, auth, cmd, pending, uriA, uriB, url,
          provider, bar, connect, calls>>

(***************************************************************************)
(* Bounds                                                                  *)
(***************************************************************************)
\* state objects (and their token sources) constructed in one behaviour
MaxTokens == 5
\* createConversation calls in one behaviour
MaxCreateCalls == 2
\* decreaseRetries calls that lower a counter in one behaviour
MaxDecrease == 4
\* preloader and send calls made in one behaviour
MaxCalls == 3
\* preloader and send calls made in a behaviour that lowers a retry counter
MaxRetryCalls == 2

\* chat messages, '' included (send tests "msg" for truthiness)
Msgs == {"", "m1", "m2"}
\* approach texts; '' is the text every state is constructed with
Approaches == {"", "plan"}
\* what createConversation can resolve to; '' is a falsy id
ConvIds == {"", "c1", "c2"}

(***************************************************************************)
(* Session: constants and state objects                                    *)
(***************************************************************************)
approachRetryLimit == 3
codeGenRetryLimit == 3

StateNames == {"ConversationNotStarted", "PrepareRefinement", "PrepareCodeGen"}

\* The phase a state object of each step reports.
Phase(name) ==
    CASE name = "ConversationNotStarted" -> "Init"
      [] name = "PrepareRefinement"      -> "Approach"
      [] name = "PrepareCodeGen"         -> "Codegen"

\* Position of a named state in the linear order of the steps.
Rank(name) ==
    CASE name = "ConversationNotStarted" -> 0
      [] name = "PrepareRefinement"      -> 1
      [] name = "PrepareCodeGen"         -> 2

\* A state object: its step, its approach text, whether it has an uploadId
\* property, and the identity of the CancellationTokenSource it constructed.
NewState(name, approach, hasUploadId, tok) ==
    [name |-> name, phase |-> Phase(name), approach |-> approach,
     uploadId |-> hasUploadId, token |-> tok]

Returned(c) == [c |-> c, threw |-> FALSE]
Thrown(c) == [c |-> c, threw |-> TRUE]

\* get conversationId: throws ConversationIdNotFoundError on a falsy id
conversationIdThrows(s) == s.conversationId = ""

\* get uploadId: throws unless the state object has an uploadId property
uploadIdThrows(s) == ~s.state.uploadId

(***************************************************************************)
(* Session: operations.  c is [s |-> the Session, w |-> the world]; each   *)
(* operation yields the configuration it leaves and whether it threw.      *)
(***************************************************************************)

\* the test of line 91, always passing
preloaderShouldRun_always(s) == TRUE

\* the test of line 91
preloaderShouldRun(s) == ~s.preloaderFinished

\* preloader up to its first await: the test of line 91, and
\* setupConversation (lines 108-110) until createConversation has been
\* called
preloaderBegin(c, msg) ==
    IF preloaderShouldRun(c.s)
    THEN [c |-> [c EXCEPT !.s.latestMessage = msg,
                          !.w.createConversationCalls = @ + 1],
          awaiting |-> TRUE]
    ELSE [c |-> c, awaiting |-> FALSE]

\* setupConversation from its await on (lines 110-119): createConversation
\* settles as cc = [ok |-> it resolved, id |-> to what], the id is stored,
\* and the arguments of the new state read it back
setupConversationResume(c, cc) ==
    IF ~cc.ok THEN Thrown(c)
    ELSE LET c2 == [c EXCEPT !.s.conversationId = cc.id]
         IN  IF conversationIdThrows(c2.s) THEN Thrown(c2)
             ELSE Returned([c2 EXCEPT
                    !.s.state = NewState("PrepareRefinement", "", FALSE,
                                         c2.w.nextToken),
                    !.w.nextToken = @ + 1])

\* preloader that never records that it finished
preloaderResume_noFinish(c) ==
    IF conversationIdThrows(c.s) THEN Thrown(c)
    ELSE Returned([c EXCEPT !.w.startChatEmits = @ + 1,
                            !.w.progressEvents = @ + 1])

\* preloader from the return of setupConversation on (lines 93-97): the
\* telemetry event reads the conversation id as it is by then
preloaderResume(c) ==
    LET c1 == [c EXCEPT !.s.preloaderFinished = TRUE]
    IN  IF conversationIdThrows(c1.s) THEN Thrown(c1)
        ELSE Returned([c1 EXCEPT !.w.startChatEmits = @ + 1,
                                 !.w.progressEvents = @ + 1])

initCodegen(c) ==
    IF conversationIdThrows(c.s) \/ uploadIdThrows(c.s) THEN Thrown(c)
    ELSE Returned([c EXCEPT
            !.s.state = NewState("PrepareCodeGen", c.s.approach, TRUE,
                                 c.w.nextToken),
            !.w.nextToken = @ + 1,
            !.s.latestMessage = ""])

\* What state.interact can do, by the step of the state it is called on.
\* kind "throw": it rejects.  Otherwise approachAfter is the approach that
\* state object holds when it resolves; kind "next" carries a nextState, a
\* new state object of the same step (nextName) that has an uploadId and
\* was constructed with the approach nextApproach.
InteractOutcomes(st) ==
    IF st.name = "ConversationNotStarted"
    THEN {[kind |-> "throw", approachAfter |-> st.approach,
           nextApproach |-> "", nextName |-> st.name]}
    ELSE {[kind |-> "throw", approachAfter |-> st.approach,
           nextApproach |-> "", nextName |-> st.name]}
         \cup [kind : {"stay"}, approachAfter : Approaches,
               nextApproach : {""}, nextName : {st.name}]
         \cup [kind : {"next"}, approachAfter : Approaches,
               nextApproach : Approaches, nextName : {st.name}]

\* the step change with the cancel issued after the state is replaced
moveToNextState_cancelAfter(c, io) ==
    LET newApproach == c.s.state.approach
        moved == [c EXCEPT
                    !.s.state = NewState(io.nextName, io.nextApproach, TRUE,
                                         c.w.nextToken),
                    !.w.nextToken = @ + 1]
        cancelled == [moved EXCEPT !.w.cancelled = @ \cup {moved.s.state.token}]
    IN  [cancelled EXCEPT !.s.state.approach = newApproach,
                          !.s.approach = newApproach]

\* the step change that leaves the next state the approach it came with
moveToNextState_nextKeepsApproach(c, io) ==
    LET newApproach == c.s.state.approach
        cancelled == [c EXCEPT !.w.cancelled = @ \cup {c.s.state.token}]
        moved == [cancelled EXCEPT
                    !.s.state = NewState(io.nextName, io.nextApproach, TRUE,
                                         c.w.nextToken),
                    !.w.nextToken = @ + 1]
    IN  [moved EXCEPT !.s.approach = newApproach]

\* lines 176-189: the step change.  this.state is the state the Session
\* holds when the interaction has resolved.
moveToNextState(c, io) ==
    LET newApproach == c.s.state.approach
        cancelled == [c EXCEPT !.w.cancelled = @ \cup {c.s.state.token}]
        moved == [cancelled EXCEPT
                    !.s.state = NewState(io.nextName, io.nextApproach, TRUE,
                                         c.w.nextToken),
                    !.w.nextToken = @ + 1]
    IN  [moved EXCEPT !.s.state.approach = newApproach,
                      !.s.approach = newApproach]

\* send up to its first await (lines 155-165)
send(c, msg) ==
    LET c1 == IF c.s.task = "" /\ msg # ""
              THEN [c EXCEPT !.s.task = msg] ELSE c
    IN  [c1 EXCEPT !.s.latestMessage = msg]

\* line 167: interact is called on the state the Session holds once
\* collectFiles has resolved; the call keeps that state object
interactCall(c, call) ==
    [call EXCEPT !.pc = "interact", !.tok = c.s.state.token,
                 !.name = c.s.state.name]

\* the interaction leaves its approach in the state object it ran on, which
\* the Session still holds or has replaced meanwhile
interacted(c, call, io) ==
    IF c.s.state.token = call.tok
    THEN [c EXCEPT !.s.state.approach = io.approachAfter]
    ELSE c

\* nextInteraction from the await of interact on (lines 167-191)
nextInteraction(c, call, io) ==
    IF io.kind = "throw" THEN Thrown(c)
    ELSE IF io.kind = "next"
         THEN Returned(moveToNextState(interacted(c, call, io), io))
         ELSE Returned(interacted(c, call, io))

retries(s) ==
    CASE s.state.phase = "Approach" -> s.approachRetries
      [] s.state.phase = "Codegen"  -> s.codeGenRetries
      [] OTHER                      -> s.approachRetries

\* decreaseRetries whose Codegen case lowers the Approach counter
decreaseRetries_sameCounter(s) ==
    CASE s.state.phase = "Approach" -> [s EXCEPT !.approachRetries = @ - 1]
      [] s.state.phase = "Codegen"  -> [s EXCEPT !.approachRetries = @ - 1]
      [] OTHER                      -> s

decreaseRetries(s) ==
    CASE s.state.phase = "Approach" -> [s EXCEPT !.approachRetries = @ - 1]
      [] s.state.phase = "Codegen"  -> [s EXCEPT !.codeGenRetries = @ - 1]
      [] OTHER                      -> s

\* A preloader or send call in flight: the await it stands at, the message
\* of a preloader call, and for a send that awaits interact the state
\* object (token, step) the interaction runs on.
AwaitCall(op, pc, msg) ==
    [op |-> op, pc |-> pc, msg |-> msg, tok |-> 0,
     name |-> "ConversationNotStarted"]

\* no call is in flight
NoCalls == EmptyBag

CallsIdle == calls = NoCalls

\* the Session as its constructor leaves it
SessionInit ==
    /\ session = [state |-> NewState("ConversationNotStarted", "", FALSE, 0),
                  task |-> "", approach |-> "", conversationId |-> "",
                  approachRetries |-> approachRetryLimit,
                  codeGenRetries |-> codeGenRetryLimit,
                  preloaderFinished |-> FALSE, latestMessage |-> ""]
    /\ world = [createConversationCalls |-> 0, startChatEmits |-> 0,
                progressEvents |-> 0, cancelled |-> {}, nextToken |-> 1,
                preloaderCompleted |-> FALSE, callsMade |-> 0]
    /\ last = [op |-> "new", pc |-> "call", msg |-> "", threw |-> FALSE,
               kind |-> "none", approach |-> ""]

(***************************************************************************)
(* Commands: login, logout and the client injector                         *)
(***************************************************************************)
\* ids of authentication sessions
MaxSessions == 2
SessionIds == 1..MaxSessions
NoSession == 0

\* LoginWizard.run: the user dismisses it (NoSession), or it resolves to a
\* session of the provider, which is then the provider's active session.
wizardRun(a, sid) ==
    IF sid = NoSession THEN a
    ELSE [a EXCEPT !.sessions = @ \cup {sid}, !.active = sid]

\* what a call of CawsAuthenticationProvider.deleteSession can do: remove
\* the session before it returns, return with the removal still to come,
\* or throw
DeleteOutcomes == {"removed", "started", "threw"}

\* the provider without the session sid
removeSession(a, sid) ==
    [sessions |-> a.sessions \ {sid},
     active |-> IF a.active = sid THEN NoSession ELSE a.active,
     deleting |-> a.deleting \ {sid}]

\* CawsAuthenticationProvider.deleteSession, called and not awaited (line
\* 50) or returned (line 64)
deleteSession(a, sid, del) ==
    IF del = "removed" THEN removeSession(a, sid)
    ELSE IF del = "started" THEN [a EXCEPT !.deleting = @ \cup {sid}]
    ELSE a

\* what setCredentials can do: reject, or resolve leaving the client
\* connected or not
CredentialOutcomes == [ok : BOOLEAN, connected : BOOLEAN]

\* what the wrapped command can do when it is called (CawsCommand, lines
\* 280-282, returns U | Promise<U>): return a value or undefined, throw,
\* or return a promise that settles later
CommandOutcomes == {"value", "undefined", "threw", "promise"}

\* how the promise a command returned settles
PromiseOutcomes == {"value", "undefined", "threw"}

\* A call of login / withClient / a bound command, and what it has done so
\* far.  pc is the await the call stands at ("done": it has settled);
\* hasClient says that clientFactory resolved, connected is
\* client.connected of the client it made; result "threw" is a call that
\* rejected.
NoCall ==
    [op |-> "none", pc |-> "idle", hasClient |-> FALSE,
     connectedBefore |-> FALSE,
     connected |-> FALSE, lastSession |-> NoSession,
     wizardSession |-> NoSession, loginAttempts |-> 0,
     loginResult |-> "none", setCredentialsCalls |-> 0,
     credentialsSet |-> FALSE, deleted |-> {},
     errorsShown |-> 0, commandRuns |-> 0, commandConnected |-> {},
     result |-> "undefined"]

\* lines 254 and 312: the call awaits clientFactory()
clientFactoryCall(op) == [NoCall EXCEPT !.op = op, !.pc = "clientFactory"]

\* clientFactory() rejects: the await of line 254 or 312 throws, and the
\* call rejects with no login made and no command called
clientFactoryRejects(call) == [call EXCEPT !.pc = "done", !.result = "threw"]

\* login up to its first await (lines 37-39): the active session is read
\* before the wizard runs
loginCall(a, call) ==
    [call EXCEPT !.pc = "wizard", !.loginAttempts = @ + 1,
                 !.lastSession = a.active]

\* login has returned: CawsCommands.login resolves to the LoginResult, the
\* injector resumes at line 257
loginReturns(call) ==
    IF call.op = "login"
    THEN [call EXCEPT !.pc = "done", !.result = call.loginResult]
    ELSE [call EXCEPT !.pc = "login"]

\* wizard.run() rejects: line 39 is outside the try, so login rejects;
\* CawsCommands.login rejects with it, the injector resumes at line 257
loginRejects(call) ==
    IF call.op = "login"
    THEN [call EXCEPT !.pc = "done", !.loginResult = "rejected",
                      !.result = "threw"]
    ELSE [call EXCEPT !.pc = "login", !.loginResult = "rejected"]

\* login from the await of wizard.run on (lines 39-47): sid is the
\* wizard's response (NoSession: none)
loginWizard(a, call, sid) ==
    IF sid = NoSession
    THEN [auth |-> wizardRun(a, sid),
          call |-> loginReturns([call EXCEPT !.loginResult = "Cancelled"])]
    ELSE [auth |-> wizardRun(a, sid),
          call |-> [call EXCEPT !.pc = "setCredentials",
                                !.wizardSession = sid,
                                !.setCredentialsCalls = @ + 1]]

\* login deleting the previous session whatever setCredentials does
loginCredentials_deleteFirst(a, call, cred, del) ==
    LET switched == /\ call.lastSession # NoSession
                    /\ call.wizardSession # call.lastSession
        c1 == [call EXCEPT
                !.connected = IF cred.ok THEN cred.connected ELSE @,
                !.credentialsSet = cred.ok,
                !.loginResult = IF cred.ok /\ ~(switched /\ del = "threw")
                                THEN "Succeeded" ELSE "Failed",
                !.deleted = IF switched THEN {call.lastSession} ELSE {}]
    IN  [auth |-> IF switched THEN deleteSession(a, call.lastSession, del)
                  ELSE a,
         call |-> loginReturns(c1)]

\* login from the await of setCredentials on (lines 47-57): cred is what
\* setCredentials does, del what deleteSession does if it is called.  A
\* throw of either is caught at line 54.
loginCredentials(a, call, cred, del) ==
    IF ~cred.ok
    THEN [auth |-> a,
          call |-> loginReturns([call EXCEPT !.loginResult = "Failed"])]
    ELSE LET c1 == [call EXCEPT !.connected = cred.connected,
                                !.credentialsSet = TRUE]
         IN  IF call.lastSession # NoSession
                /\ call.wizardSession # call.lastSession
             THEN [auth |-> deleteSession(a, call.lastSession, del),
                   call |-> loginReturns(
                                [c1 EXCEPT
                                    !.deleted = {call.lastSession},
                                    !.loginResult =
                                        IF del = "threw" THEN "Failed"
                                        ELSE "Succeeded"])]
             ELSE [auth |-> a,
                   call |-> loginReturns(
                                [c1 EXCEPT !.loginResult = "Succeeded"])]

\* logout (lines 60-66)
logout(a, del) ==
    IF a.active # NoSession THEN deleteSession(a, a.active, del) ELSE a

\* lines 260 and 270: the command is called with the client, and the
\* call settles as the command does: in the same step, or when the
\* promise the command returned settles
command(call, out) ==
    [call EXCEPT !.pc = IF out = "promise" THEN "command" ELSE "done",
                 !.commandRuns = @ + 1,
                 !.commandConnected = @ \cup {call.connected},
                 !.result = IF out = "promise" THEN @ ELSE out]

\* the promise of the command settles, and the call with it (return
\* command(client, ...args), lines 260 and 270)
commandSettles(call, how) == [call EXCEPT !.pc = "done", !.result = how]

\* the function createClientInjector returns, from the await of
\* clientFactory on (lines 254-257, 270), and CawsCommands.login from its
\* await on (line 312): connected is client.connected of the client the
\* factory made, out what the command does if it is called
withClient(a, call, connected, out) ==
    IF call.op = "login" THEN loginCall(a, [call EXCEPT !.hasClient = TRUE])
    ELSE LET c1 == [call EXCEPT !.hasClient = TRUE,
                                !.connectedBefore = connected,
                                !.connected = connected]
         IN  IF ~connected THEN loginCall(a, c1) ELSE command(c1, out)

\* the await of login in the injector (line 257) throws what login
\* rejected with
withClientThrows(call) == [call EXCEPT !.pc = "done", !.result = "threw"]

\* the injector showing the error whenever the login did not succeed
withClientResume_errorUnlessSucceeded(call, out) ==
    IF call.loginResult = "rejected" THEN withClientThrows(call)
    ELSE IF call.loginResult = "Succeeded" /\ call.connected
    THEN command(call, out)
    ELSE [call EXCEPT !.pc = "done",
                      !.errorsShown = IF call.loginResult # "Succeeded"
                                      THEN @ + 1 ELSE @,
                      !.result = "undefined"]

\* the injector calling the command after any login that succeeded
withClientResume_trustLogin(call, out) ==
    IF call.loginResult = "rejected" THEN withClientThrows(call)
    ELSE IF call.loginResult = "Succeeded"
    THEN command(call, out)
    ELSE [call EXCEPT !.pc = "done",
                      !.errorsShown = IF call.loginResult = "Failed"
                                      THEN @ + 1 ELSE @,
                      !.result = "undefined"]

\* the injector from the await of login on (lines 257-267)
withClientResume(call, out) ==
    IF call.loginResult = "rejected" THEN withClientThrows(call)
    ELSE IF call.loginResult = "Succeeded" /\ call.connected
    THEN command(call, out)
    ELSE [call EXCEPT !.pc = "done",
                      !.errorsShown = IF call.loginResult = "Failed"
                                      THEN @ + 1 ELSE @,
                      !.result = "undefined"]

\* the function createCommandDecorator returns for a command (lines
\* 274-278): a call of it is a call of commands.withClient, and goes on
\* as one
bindClient == clientFactoryCall("withClient")

\* who calls commands: each has at most one call in flight
Callers == {"a", "b"}

\* how many calls and started removals may be in flight together
MaxInFlight == 2

InFlightCalls(a, p) == BagCardinality(p) + Cardinality(a.deleting)

NoAuth == [sessions |-> {}, active |-> NoSession, deleting |-> {}]

CommandsIdle ==
    /\ auth = NoAuth
    /\ cmd = NoCall
    /\ pending = EmptyBag

\* the provider as the extension finds it when it starts
CommandsInit ==
    /\ \E ss \in SUBSET SessionIds : \E act \in ss \cup {NoSession} :
            auth = [sessions |-> ss, active |-> act, deleting |-> {}]
    /\ cmd = NoCall
    /\ pending = EmptyBag

\* A client the factory makes is connected only with an active session.
ClientStates(a) == IF a.active = NoSession THEN {FALSE} ELSE BOOLEAN

\* what a call in flight carries on: the locals of a login that has
\* returned are gone
suspended(call) ==
    IF call.pc = "login"
    THEN [call EXCEPT !.lastSession = NoSession, !.wizardSession = NoSession,
                      !.setCredentialsCalls = 0, !.credentialsSet = FALSE,
                      !.deleted = {}]
    ELSE call

\* cmd is the call that took the last step, as that step left it; a call
\* that has not settled stays in flight
CommandStep(a, old, new) ==
    /\ auth' = a
    /\ cmd' = new
    /\ pending' = IF new.pc = "done" THEN pending (-) SetToBag({old})
                  ELSE (pending (-) SetToBag({old}))
                            (+) SetToBag({suspended(new)})
    /\ InFlightCalls(auth', pending') <= MaxInFlight
    /\ UNCHANGED <<sessionVars, uriVars, url, adapterVars>>

CommandCall(call) ==
    /\ BagCardinality(pending) < Cardinality(Callers)
    /\ InFlightCalls(auth, pending) < MaxInFlight
    /\ CommandStep(auth, NoCall, call)

LoginCommand == CommandCall(clientFactoryCall("login"))

WithClient == CommandCall(clientFactoryCall("withClient"))

\* a call of a command bound with bindClient
BindClient == CommandCall(bindClient)

LogoutCommand ==
    \E del \in DeleteOutcomes :
        /\ auth' = logout(auth, del)
        /\ cmd' = [NoCall EXCEPT
                        !.op = "logout", !.pc = "done",
                        !.lastSession = auth.active,
                        !.deleted = IF auth.active # NoSession
                                    THEN {auth.active} ELSE {},
                        !.result = IF auth.active # NoSession
                                      /\ del = "threw"
                                   THEN "threw" ELSE "undefined"]
        /\ InFlightCalls(auth', pending) <= MaxInFlight
        /\ UNCHANGED <<pending, sessionVars, uriVars, url, adapterVars>>

\* a removal that deleteSession started takes place
DeleteSessionSettles ==
    \E sid \in auth.deleting :
        /\ auth' = removeSession(auth, sid)
        /\ cmd' = [NoCall EXCEPT !.op = "deleteSession", !.pc = "done"]
        /\ UNCHANGED <<pending, sessionVars, uriVars, url, adapterVars>>

\* clientFactory settles for a call that awaits it
ClientFactorySettles ==
    \E call \in BagToSet(pending) :
        /\ call.pc = "clientFactory"
        /\ \/ \E connected \in ClientStates(auth), out \in CommandOutcomes :
                CommandStep(auth, call, withClient(auth, call, connected, out))
           \/ CommandStep(auth, call, clientFactoryRejects(call))

\* wizard.run settles for a login that awaits it
WizardSettles ==
    \E call \in BagToSet(pending) :
        /\ call.pc = "wizard"
        /\ \/ \E sid \in SessionIds \cup {NoSession} :
                LET r == loginWizard(auth, call, sid)
                IN  CommandStep(r.auth, call, r.call)
           \/ CommandStep(auth, call, loginRejects(call))

\* setCredentials settles for a login that awaits it
SetCredentialsSettles ==
    \E call \in BagToSet(pending), cred \in CredentialOutcomes :
        \E del \in DeleteOutcomes :
            /\ call.pc = "setCredentials"
            /\ LET r == loginCredentials(auth, call, cred, del)
               IN  CommandStep(r.auth, call, r.call)

\* the injector resumes after the login it awaited
LoginReturns ==
    \E call \in BagToSet(pending), out \in CommandOutcomes :
        /\ call.pc = "login"
        /\ CommandStep(auth, call, withClientResume(call, out))

\* the promise a command returned settles
CommandSettles ==
    \E call \in BagToSet(pending), how \in PromiseOutcomes :
        /\ call.pc = "command"
        /\ CommandStep(auth, call, commandSettles(call, how))

(***************************************************************************)
(* Text.  A string is the sequence of its UTF-16 code units, as            *)
(* String.prototype.charCodeAt gives them.                                 *)
(***************************************************************************)
\* longest group name tried
MaxNameLen == 2

\* F of the value v, with v worked out once
Bind(v, F(_)) == CHOOSE r \in {F(x) : x \in {v}} : TRUE

\* the sequences over S of lengths lo..hi
SeqsOf(S, lo, hi) == UNION {[1..n -> S] : n \in lo..hi}

RECURSIVE Join(_, _)
\* Array.prototype.join
Join(ss, sep) ==
    IF ss = <<>> THEN <<>>
    ELSE IF Len(ss) = 1 THEN ss[1]
    ELSE ss[1] \o sep \o Join(Tail(ss), sep)

\* index of the first element of t that is in S, Len(t) + 1 if there is none
FirstIn(t, S) ==
    IF \E i \in 1..Len(t) : t[i] \in S
    THEN CHOOSE i \in 1..Len(t) : t[i] \in S /\ \A j \in 1..(i - 1) : t[j] \notin S
    ELSE Len(t) + 1

\* the characters of codes 32 to 95, and of codes 97 to 126
AsciiLow == " !\"#$%&'()*+,-./0123456789:;<=>?@ABCDEFGHIJKLMNOPQRSTUVWXYZ[\\]^_"
AsciiHigh == "abcdefghijklmnopqrstuvwxyz{|}~"

\* the code unit of a one-character string
charCode(c) ==
    IF \E i \in 1..Len(AsciiLow) : SubSeq(AsciiLow, i, i) = c
    THEN 31 + CHOOSE i \in 1..Len(AsciiLow) : SubSeq(AsciiLow, i, i) = c
    ELSE 96 + CHOOSE i \in 1..Len(AsciiHigh) : SubSeq(AsciiHigh, i, i) = c

\* the code units of a string written in the model
Text(s) == [i \in 1..Len(s) |-> charCode(SubSeq(s, i, i))]

\* the code units that occur in t
CharsOf(t) == {t[i] : i \in 1..Len(t)}

CLOUDWATCH_LOGS_SCHEME == Text("aws-cwl")

isLeadSurrogate(u) == u \in 55296..56319
isTrailSurrogate(u) == u \in 56320..57343

\* the code point of a surrogate pair
codePoint(lead, trail) == 65536 + (lead - 55296) * 1024 + (trail - 56320)

\* the UTF-8 octets of a code point
utf8(cp) ==
    IF cp < 128 THEN <<cp>>
    ELSE IF cp < 2048 THEN <<192 + (cp \div 64), 128 + (cp % 64)>>
    ELSE IF cp < 65536
    THEN <<224 + (cp \div 4096), 128 + ((cp \div 64) % 64), 128 + (cp % 64)>>
    ELSE <<240 + (cp \div 262144), 128 + ((cp \div 4096) % 64),
           128 + ((cp \div 64) % 64), 128 + (cp % 64)>>

\* the UTF-16 code units of a code point
utf16(cp) ==
    IF cp < 65536 THEN <<cp>>
    ELSE <<55296 + ((cp - 65536) \div 1024), 56320 + ((cp - 65536) % 1024)>>

UpperHex == Text("0123456789ABCDEF")
LowerHex == Text("0123456789abcdef")

RECURSIVE Flatten(_)
\* the sequences of ss one after another
Flatten(ss) ==
    IF ss = <<>> THEN <<>>
    ELSE IF Len(ss) = 1 THEN ss[1]
    ELSE Flatten(SubSeq(ss, 1, Len(ss) \div 2))
            \o Flatten(SubSeq(ss, (Len(ss) \div 2) + 1, Len(ss)))

\* each octet as '%' and two upper-case hexadecimal digits
percentOctets(bs) ==
    Flatten([j \in 1..Len(bs) |->
                <<37, UpperHex[(bs[j] \div 16) + 1], UpperHex[(bs[j] % 16) + 1]>>])

\* what a URI function that throws URIError gives in place of a text
URIError == <<-1>>

\* the characters encodeURIComponent leaves as they are
uriUnreserved ==
    CharsOf(Text("ABCDEFGHIJKLMNOPQRSTUVWXYZabcdefghijklmnopqrstuvwxyz"))
        \cup CharsOf(Text("0123456789-_.!~*'()"))

\* whether the code unit at position i of t is the first, or the second,
\* of a surrogate pair
pairStartsAt(t, i) ==
    i < Len(t) /\ isLeadSurrogate(t[i]) /\ isTrailSurrogate(t[i + 1])
pairEndsAt(t, i) ==
    i > 1 /\ isTrailSurrogate(t[i]) /\ isLeadSurrogate(t[i - 1])

\* whether the code unit at position i of t is a surrogate without its
\* pair
loneSurrogateAt(t, i) ==
    /\ isLeadSurrogate(t[i]) \/ isTrailSurrogate(t[i])
    /\ ~pairStartsAt(t, i)
    /\ ~pairEndsAt(t, i)

\* what encodeURIComponent writes for position i of t: the character if
\* it is unreserved, else the percent escapes of the UTF-8 octets of the
\* code point that starts there
encodedAt(t, i) ==
    IF t[i] \in uriUnreserved THEN <<t[i]>>
    ELSE IF pairEndsAt(t, i) THEN <<>>
    ELSE IF pairStartsAt(t, i)
    THEN percentOctets(utf8(codePoint(t[i], t[i + 1])))
    ELSE percentOctets(utf8(t[i]))

\* encodeURIComponent; a surrogate without its pair throws
encodeURIComponent(t) ==
    IF \E i \in 1..Len(t) : loneSurrogateAt(t, i) THEN URIError
    ELSE Flatten([i \in 1..Len(t) |-> encodedAt(t, i)])

\* the value of a hexadecimal digit, -1 for any other character
hexValue(u) ==
    IF u \in 48..57 THEN u - 48
    ELSE IF u \in 65..70 THEN u - 55
    ELSE IF u \in 97..102 THEN u - 87
    ELSE -1

\* the octet that the escape at position k of t stands for, -1 if there
\* is no '%' and two hexadecimal digits there
octetAt(t, k) ==
    IF k >= 1 /\ k + 2 <= Len(t) /\ t[k] = 37
       /\ hexValue(t[k + 1]) >= 0 /\ hexValue(t[k + 2]) >= 0
    THEN 16 * hexValue(t[k + 1]) + hexValue(t[k + 2])
    ELSE -1

\* the six low bits of the continuation octet at position k, -1 if there
\* is none
continuationAt(t, k) ==
    IF octetAt(t, k) \in 128..191 THEN octetAt(t, k) - 128 ELSE -1

\* how many octets the UTF-8 sequence that starts with octet b has, 0 if
\* none starts with it
utf8Length(b) ==
    IF b \in 0..127 THEN 1
    ELSE IF b \in 192..223 THEN 2
    ELSE IF b \in 224..239 THEN 3
    ELSE IF b \in 240..247 THEN 4
    ELSE 0

\* the code point that the escapes from position k of t on encode, -1 if
\* they do not start with the UTF-8 encoding of a code point
codePointAt(t, k) ==
    LET b == octetAt(t, k)
        n == utf8Length(b)
        c2 == continuationAt(t, k + 3)
        c3 == continuationAt(t, k + 6)
        c4 == continuationAt(t, k + 9)
        cp == IF n = 1 THEN b
              ELSE IF n = 2 THEN (b - 192) * 64 + c2
              ELSE IF n = 3 THEN (b - 224) * 4096 + c2 * 64 + c3
              ELSE (b - 240) * 262144 + c2 * 4096 + c3 * 64 + c4
    IN  IF n = 0 THEN -1
        ELSE IF n >= 2 /\ c2 < 0 THEN -1
        ELSE IF n >= 3 /\ c3 < 0 THEN -1
        ELSE IF n >= 4 /\ c4 < 0 THEN -1
        ELSE IF n = 2 /\ cp < 128 THEN -1
        ELSE IF n = 3 /\ (cp < 2048 \/ cp \in 55296..57343) THEN -1
        ELSE IF n = 4 /\ cp \notin 65536..1114111 THEN -1
        ELSE cp

\* whether the escape at position k of t is a continuation octet of the
\* UTF-8 sequence that starts one, two or three escapes before it
continues(t, k) ==
    /\ continuationAt(t, k) >= 0
    /\ \E j \in 1..3 : /\ continuationAt(t, k - 3 * j) < 0
                       /\ utf8Length(octetAt(t, k - 3 * j)) > j

\* whether decodeURIComponent throws at the '%' at position k of t
malformedAt(t, k) ==
    /\ t[k] = 37
    /\ ~continues(t, k)
    /\ codePointAt(t, k) < 0

\* what decodeURIComponent writes for position i of t
decodedAt(t, i) ==
    IF t[i] = 37
    THEN IF continues(t, i) THEN <<>> ELSE utf16(codePointAt(t, i))
    ELSE IF (i > 1 /\ t[i - 1] = 37) \/ (i > 2 /\ t[i - 2] = 37) THEN <<>>
    ELSE <<t[i]>>

\* decodeURIComponent: each run of escapes that is the UTF-8 encoding of
\* a code point becomes that character; any other '%' throws
decodeURIComponent(t) ==
    IF \E k \in 1..Len(t) : malformedAt(t, k) THEN URIError
    ELSE Flatten([i \in 1..Len(t) |-> decodedAt(t, i)])

\* the least number of leading escapes that decodeURIComponentGraceful
\* keeps as they are: the rest decodes, or is too short to be cut again
keptEscapes(t) ==
    CHOOSE k \in 0..Len(t) :
        /\ \/ decodeURIComponent(SubSeq(t, 3 * k + 1, Len(t))) # URIError
           \/ Len(t) - 3 * k <= 3
        /\ \A j \in 0..(k - 1) :
            /\ decodeURIComponent(SubSeq(t, 3 * j + 1, Len(t))) = URIError
            /\ Len(t) - 3 * j > 3

\* vscode's decodeURIComponentGraceful: a text that cannot be decoded
\* keeps its first three characters, and the rest is tried again
decodeURIComponentGraceful(t) ==
    Bind(keptEscapes(t), LAMBDA k :
    Bind(decodeURIComponent(SubSeq(t, 3 * k + 1, Len(t))), LAMBDA decoded :
            SubSeq(t, 1, 3 * k)
                \o (IF decoded = URIError THEN SubSeq(t, 3 * k + 1, Len(t))
                    ELSE decoded)))

\* the characters [0-9A-Za-z]
AlphaNumeric == (48..57) \cup (65..90) \cup (97..122)

\* whether %[0-9A-Za-z][0-9A-Za-z] matches at position k of t
encodedAsHexAt(t, k) ==
    /\ k >= 1 /\ k + 2 <= Len(t)
    /\ t[k] = 37
    /\ t[k + 1] \in AlphaNumeric /\ t[k + 2] \in AlphaNumeric

\* the length of the match of (%[0-9A-Za-z][0-9A-Za-z])+ that starts at
\* position k of t
encodedAsHex(t, k) ==
    3 * (CHOOSE n \in 1..Len(t) :
            /\ ~encodedAsHexAt(t, k + 3 * n)
            /\ \A j \in 0..(n - 1) : encodedAsHexAt(t, k + 3 * j))

\* what percentDecode writes for position i of t: what
\* decodeURIComponentGraceful makes of the match that starts there,
\* nothing for the rest of a match, else the character
percentDecodedAt(t, i) ==
    IF encodedAsHexAt(t, i)
    THEN IF encodedAsHexAt(t, i - 3) THEN <<>>
         ELSE Bind(SubSeq(t, i, i + encodedAsHex(t, i) - 1),
                   LAMBDA match : decodeURIComponentGraceful(match))
    ELSE IF encodedAsHexAt(t, i - 1) \/ encodedAsHexAt(t, i - 2) THEN <<>>
    ELSE <<t[i]>>

\* vscode's percentDecode: every match of (%[0-9A-Za-z][0-9A-Za-z])+ is
\* replaced by what decodeURIComponentGraceful makes of it
percentDecode(t) == Flatten([i \in 1..Len(t) |-> percentDecodedAt(t, i)])

\* the scheme of a URI text, ([^:/?#]+?):, and what follows its ':'; no
\* scheme if the text does not start with one
takeScheme(t) ==
    LET i == FirstIn(t, CharsOf(Text(":/?#")))
    IN  IF i > 1 /\ i <= Len(t) /\ t[i] = charCode(":")
        THEN [scheme |-> SubSeq(t, 1, i - 1), rest |-> SubSeq(t, i + 1, Len(t))]
        ELSE [scheme |-> <<>>, rest |-> t]

\* the authority after a leading "//", up to the next '/', '?' or '#'
takeAuthority(r) ==
    IF Len(r) >= 2 /\ r[1] = charCode("/") /\ r[2] = charCode("/")
    THEN LET body == SubSeq(r, 3, Len(r))
             j == FirstIn(body, CharsOf(Text("/?#")))
         IN  [authority |-> SubSeq(body, 1, j - 1),
              rest |-> SubSeq(body, j, Len(body))]
    ELSE [authority |-> <<>>, rest |-> r]

\* the path, up to the first '?' or '#'
takePath(r) ==
    LET k == FirstIn(r, CharsOf(Text("?#")))
    IN  [path |-> SubSeq(r, 1, k - 1), rest |-> SubSeq(r, k, Len(r))]

\* the query after a '?', up to the first '#'
takeQuery(r) ==
    IF r # <<>> /\ r[1] = charCode("?")
    THEN LET body == Tail(r)
             m == FirstIn(body, CharsOf(Text("#")))
         IN  [query |-> SubSeq(body, 1, m - 1),
              rest |-> SubSeq(body, m, Len(body))]
    ELSE [query |-> <<>>, rest |-> r]

\* the line terminators, which '.' of a regular expression does not match
LineTerminators == {10, 13, 8232, 8233}

\* the fragment after a '#', up to the end of the line
takeFragment(r) ==
    IF r # <<>> /\ r[1] = charCode("#")
    THEN SubSeq(Tail(r), 1, FirstIn(Tail(r), LineTerminators) - 1)
    ELSE <<>>

\* vscode's _schemeFix, not strict
schemeFix(scheme) == IF scheme = <<>> THEN Text("file") ELSE scheme

\* vscode's _referenceResolution: the path of an https, http or file URI
\* starts with '/'
referenceResolution(scheme, path) ==
    IF scheme \notin {Text("https"), Text("http"), Text("file")} THEN path
    ELSE IF path = <<>> \/ path[1] # charCode("/") THEN Text("/") \o path
    ELSE path

\* the characters \w, and those of [\w\d+.-]
WordChars == AlphaNumeric \cup {charCode("_")}
SchemeChars == WordChars \cup CharsOf(Text("+.-"))

\* vscode's _validateUri, not strict: whether it throws
validateUriThrows(uri) ==
    \/ /\ uri.scheme # <<>>
       /\ \/ uri.scheme[1] \notin WordChars
          \/ \E i \in 2..Len(uri.scheme) : uri.scheme[i] \notin SchemeChars
    \/ /\ uri.path # <<>>
       /\ uri.authority # <<>>
       /\ uri.path[1] # charCode("/")
    \/ /\ uri.path # <<>>
       /\ uri.authority = <<>>
       /\ Len(uri.path) >= 2
       /\ uri.path[1] = charCode("/") /\ uri.path[2] = charCode("/")

\* a URI: its five components
Uri(scheme, authority, path, query, fragment) ==
    [scheme |-> scheme, authority |-> authority, path |-> path,
     query |-> query, fragment |-> fragment]

\* what a function that throws gives in place of a URI
UriError == Uri(URIError, <<>>, <<>>, <<>>, <<>>)

\* the URI of the components the expression of vscode.Uri.parse matched
newUri(s, a, p, q, r) ==
    Bind(Uri(schemeFix(s.scheme),
             percentDecode(a.authority),
             referenceResolution(schemeFix(s.scheme), percentDecode(p.path)),
             percentDecode(q.query),
             percentDecode(takeFragment(r))),
         LAMBDA uri : IF validateUriThrows(uri) THEN UriError ELSE uri)

\* vscode.Uri.parse, not strict: [scheme ":"] ["//" authority] path
\* ["?" query] ["#" fragment], each component but the scheme
\* percent-decoded
UriParse(t) ==
    Bind(takeScheme(t), LAMBDA s :
    Bind(takeAuthority(s.rest), LAMBDA a :
    Bind(takePath(a.rest), LAMBDA p :
    Bind(takeQuery(p.rest), LAMBDA q : newUri(s, a, p, q, q.rest)))))

(***************************************************************************)
(* JSON.  A value is a string, a number, an object (its properties in      *)
(* the order they were added, their names distinct), an array, or one of   *)
(* null, true, false and undefined.  The numbers are the integers, and     *)
(* NaN, Infinity, -Infinity and -0.                                        *)
(***************************************************************************)
JSvalue(type, text, number, members, items) ==
    [type |-> type, text |-> text, number |-> number, members |-> members,
     items |-> items]

String(text) == JSvalue("string", text, 0, <<>>, <<>>)
Number(n) == JSvalue("number", <<>>, n, <<>>, <<>>)
Object(members) == JSvalue("object", <<>>, 0, members, <<>>)
Array(items) == JSvalue("array", <<>>, 0, <<>>, items)
Literal(name) == JSvalue(name, Text(name), 0, <<>>, <<>>)

\* the value of a property that is there without a value
undefined == Literal("undefined")

\* the numbers that are not finite, and the negative zero
NaN == JSvalue("number", Text("NaN"), 0, <<>>, <<>>)
Infinity == JSvalue("number", Text("Infinity"), 0, <<>>, <<>>)
NegativeInfinity == JSvalue("number", Text("-Infinity"), 0, <<>>, <<>>)
NegativeZero == JSvalue("number", Text("-0"), 0, <<>>, <<>>)

RECURSIVE NumberToString(_)
\* Number::toString of an integer
NumberToString(n) ==
    IF n < 0 THEN Text("-") \o NumberToString(0 - n)
    ELSE IF n < 10 THEN <<48 + n>>
    ELSE NumberToString(n \div 10) \o <<48 + (n % 10)>>

\* the characters JSON escapes with a letter, and the letters
JSONescapes ==
    [c \in {8, 9, 10, 12, 13, 34, 92} |->
        CASE c = 8 -> charCode("b")
          [] c = 9 -> charCode("t")
          [] c = 10 -> charCode("n")
          [] c = 12 -> charCode("f")
          [] c = 13 -> charCode("r")
          [] c = 34 -> 34
          [] c = 92 -> 92]

\* UnicodeEscape: \u and four lower-case hexadecimal digits
UnicodeEscape(u) ==
    Text("\\u") \o <<LowerHex[(u \div 4096) + 1], LowerHex[((u \div 256) % 16) + 1],
                    LowerHex[((u \div 16) % 16) + 1], LowerHex[(u % 16) + 1]>>

\* one character of a string as QuoteJSONString writes it
QuoteJSONChar(u) ==
    IF u \in DOMAIN JSONescapes THEN <<92, JSONescapes[u]>>
    ELSE IF u < 32 \/ isLeadSurrogate(u) \/ isTrailSurrogate(u)
    THEN UnicodeEscape(u)
    ELSE <<u>>

\* what QuoteJSONString writes for position i of t: a surrogate pair
\* stays, a surrogate without its pair is escaped
QuoteJSONCharAt(t, i) ==
    IF pairStartsAt(t, i) \/ pairEndsAt(t, i) THEN <<t[i]>>
    ELSE QuoteJSONChar(t[i])

QuoteJSONString(t) ==
    Text("\"") \o Flatten([i \in 1..Len(t) |-> QuoteJSONCharAt(t, i)])
        \o Text("\"")

\* whether a property name is an array index: a canonical numeric string
\* of a value below 2^32 - 1
isArrayIndex(name) ==
    /\ name # <<>>
    /\ \A i \in 1..Len(name) : name[i] \in 48..57
    /\ Len(name) > 1 => name[1] # 48
    /\ Len(name) <= 10
    /\ Len(name) = 10 =>
            LET max == Text("4294967294")
            IN  \/ name = max
                \/ \E i \in 1..10 : /\ name[i] < max[i]
                                    /\ \A j \in 1..(i - 1) : name[j] = max[j]

\* whether the array index a is below the array index b
indexBelow(a, b) ==
    \/ Len(a) < Len(b)
    \/ /\ Len(a) = Len(b)
       /\ \E i \in 1..Len(a) : /\ a[i] < b[i]
                               /\ \A j \in 1..(i - 1) : a[j] = b[j]

\* the properties of an object that are array indices, or are not, in the
\* order they were added
SelectMembers(members, indices) ==
    SelectSeq(members, LAMBDA m : isArrayIndex(m[1]) = indices)

RECURSIVE SortMembers(_)
\* properties that are array indices, in ascending order
SortMembers(members) ==
    IF members = <<>> THEN <<>>
    ELSE LET least == CHOOSE m \in CharsOf(members) :
                        \A o \in CharsOf(members) : ~indexBelow(o[1], m[1])
         IN  <<least>> \o SortMembers(SelectSeq(members, LAMBDA m : m # least))

\* OrdinaryOwnPropertyKeys: the array indices in ascending order, then the
\* other names in the order they were added
OwnProperties(obj) ==
    SortMembers(SelectMembers(obj.members, TRUE))
        \o SelectMembers(obj.members, FALSE)

\* what JSON.stringify gives for a value that has no JSON text
NoJSON == <<-2>>

RECURSIVE JSONstringify(_)
RECURSIVE SerializeJSONObject(_)
RECURSIVE SerializeJSONArray(_)

\* the properties of an object, each as "name":value; a property of no
\* JSON text is left out
SerializeJSONObject(members) ==
    IF members = <<>> THEN <<>>
    ELSE IF JSONstringify(members[1][2]) = NoJSON
    THEN SerializeJSONObject(Tail(members))
    ELSE <<QuoteJSONString(members[1][1]) \o Text(":")
                \o JSONstringify(members[1][2])>>
            \o SerializeJSONObject(Tail(members))

\* the items of an array; an item of no JSON text is written null
SerializeJSONArray(items) ==
    IF items = <<>> THEN <<>>
    ELSE <<IF JSONstringify(items[1]) = NoJSON THEN Text("null")
           ELSE JSONstringify(items[1])>>
            \o SerializeJSONArray(Tail(items))

\* JSON.stringify of a value, with no replacer and no indentation
JSONstringify(v) ==
    CASE v.type = "string" -> QuoteJSONString(v.text)
      [] v.type = "number" ->
            IF v.text = <<>> THEN NumberToString(v.number)
            ELSE IF v = NegativeZero THEN Text("0")
            ELSE Text("null")
      [] v.type = "object" ->
            Text("{") \o Join(SerializeJSONObject(OwnProperties(v)), Text(","))
                \o Text("}")
      [] v.type = "array" ->
            Text("[") \o Join(SerializeJSONArray(v.items), Text(",")) \o Text("]")
      [] v.type = "undefined" -> NoJSON
      [] OTHER -> v.text

\* the value of the property of an object that has the name
Property(obj, name) ==
    LET i == CHOOSE i \in 1..Len(obj.members) : obj.members[i][1] = name
    IN  obj.members[i][2]

RECURSIVE deepStrictEqual(_, _)
\* assert.deepStrictEqual: whether it finds two values equal.  Objects
\* are equal when they have the same property names with equal values,
\* numbers as Object.is compares them.
deepStrictEqual(v1, v2) ==
    /\ v1.type = v2.type
    /\ CASE v1.type = "object" ->
                /\ {v1.members[i][1] : i \in 1..Len(v1.members)}
                        = {v2.members[i][1] : i \in 1..Len(v2.members)}
                /\ \A i \in 1..Len(v1.members) :
                        deepStrictEqual(v1.members[i][2],
                                        Property(v2, v1.members[i][1]))
         [] v1.type = "array" ->
                /\ Len(v1.items) = Len(v2.items)
                /\ \A i \in 1..Len(v1.items) :
                        deepStrictEqual(v1.items[i], v2.items[i])
         [] OTHER -> v1 = v2

(***************************************************************************)
(* CloudWatch Logs URIs                                                    *)
(***************************************************************************)
\* the text of the URI of a log group and parameters (utils.test.ts lines
\* 49-53): scheme:groupName:regionName?encoded-JSON-of-parameters.  A
\* value of no JSON text reads undefined in a template string.
uriText(logGroupInfo, parameters) ==
    Bind(JSONstringify(parameters), LAMBDA json :
    Bind(encodeURIComponent(IF json = NoJSON THEN Text("undefined") ELSE json),
         LAMBDA query :
            IF query = URIError THEN URIError
            ELSE CLOUDWATCH_LOGS_SCHEME \o Text(":") \o logGroupInfo.groupName
                    \o Text(":") \o logGroupInfo.regionName \o Text("?")
                    \o query))

\* createURIFromArgs: the URI vscode.Uri.parse makes of that text
createURIFromArgs(logGroupInfo, parameters) ==
    Bind(uriText(logGroupInfo, parameters), LAMBDA t :
            IF t = URIError THEN UriError ELSE UriParse(t))

(***************************************************************************)
(* CODE.AWS URLs                                                           *)
(***************************************************************************)
\* host name of the service, taken whole
cawsHostname == "cawsHostname"

ResourceNames == {"org1", "name2"}
ResourceIds == {"orgid1", "id2"}

\* CawsOrg, CawsProject and CawsRepo as the client declares them: a
\* project holds its org, a repo its org and its project
CawsOrgs == [id : ResourceIds, name : ResourceNames]
CawsProjects == [org : CawsOrgs, id : ResourceIds, name : ResourceNames]
CawsRepos ==
    {[org |-> p.org, project |-> p, id |-> i, name |-> n] :
        p \in CawsProjects, i \in ResourceIds, n \in ResourceNames}

\* toCawsUrl that addresses resources by id
toCawsUrl_byId(r) ==
    LET prefix == <<"https://", cawsHostname, "/organizations/">>
    IN  IF "project" \in DOMAIN r
        THEN prefix \o <<r.org.id, "/projects/", r.project.id,
                         "/source-repositories/", r.id, "/view">>
        ELSE IF "org" \in DOMAIN r
        THEN prefix \o <<r.org.id, "/projects/", r.id, "/view">>
        ELSE prefix \o <<r.id, "/view">>

\* the URL of a resource, by what the resource is nested in
toCawsUrl(r) ==
    LET prefix == <<"https://", cawsHostname, "/organizations/">>
    IN  IF "project" \in DOMAIN r
        THEN prefix \o <<r.org.name, "/projects/", r.project.name,
                         "/source-repositories/", r.name, "/view">>
        ELSE IF "org" \in DOMAIN r
        THEN prefix \o <<r.org.name, "/projects/", r.name, "/view">>
        ELSE prefix \o <<r.name, "/view">>

NoResource == [id |-> "", name |-> ""]

UrlIdle == url = [resource |-> NoResource, made |-> FALSE, result |-> <<>>]

ToCawsUrl ==
    /\ ~url.made
    /\ url.resource # NoResource
    /\ url' = [url EXCEPT !.made = TRUE, !.result = toCawsUrl(url.resource)]
    /\ UNCHANGED <<sessionVars, commandVars, uriVars, adapterVars>>

(***************************************************************************)
(* The log stream document provider and its registry                       *)
(***************************************************************************)
\* change events the registry fires in one behaviour
MaxEvents == 3
\* decoration types created in one behaviour
MaxHighlights == 2

\* the URIs of the documents of the registry
DocumentUris == {"u1", "u2"}

\* What the registry holds for a URI.  log: no log data ("missing"), or log
\* data whose parameters have no filterPattern, the filterPattern '', or a
\* filterPattern that is not empty.  editor: whether it has a text editor.
LogKinds == {"missing", "noFilter", "emptyFilter", "filter"}
RegistryEntries == [log : LogKinds, editor : BOOLEAN]

\* LogStreamRegistry.getLog: the log data, "missing" for undefined
getLog(registry, uri) == registry[uri].log

\* LogStreamRegistry.getTextEditor: TRUE for an editor, FALSE for undefined
getTextEditor(registry, uri) == registry[uri].editor

\* the test of line 38: logData.parameters.filterPattern is truthy
hasFilterPattern(logData) == logData = "filter"

\* the listener forwarding a change only of a URI other than the last one
onRegistryChange_skipRepeat(p, uri) ==
    IF p.fired # <<>> /\ p.fired[Len(p.fired)] = uri THEN p
    ELSE [p EXCEPT !.fired = Append(@, uri)]

\* lines 20-23: the listener the constructor registers with the registry
onRegistryChange(p, uri) == [p EXCEPT !.fired = Append(@, uri)]

\* The registry fires onDidChange(uri): the emitter calls the listeners
\* registered with it, here the one of the provider, before fire returns.
registryFire(p, uri) ==
    onRegistryChange([p EXCEPT !.registryFired = Append(@, uri)], uri)

\* highlightDocument creating the decoration type before it looks at what
\* the registry returned
highlightDocument_createFirst(p, uri) ==
    LET textEditor == getTextEditor(p.registry, uri)
        logData == getLog(p.registry, uri)
        p1 == [p EXCEPT !.decorationTypes = @ + 1]
    IN  IF logData = "missing" THEN [p |-> p1, threw |-> TRUE]
        ELSE IF ~textEditor THEN [p |-> p1, threw |-> TRUE]
        ELSE IF hasFilterPattern(logData)
        THEN [p |-> [p1 EXCEPT !.decorated =
                        Append(@, [uri |-> uri, type |-> p1.decorationTypes])],
              threw |-> FALSE]
        ELSE [p |-> p1, threw |-> FALSE]

\* lines 26-43.  decorationTypes counts createTextEditorDecorationType
\* calls, decorated lists the setDecorations calls: the editor's URI and
\* the decoration type passed.
highlightDocument(p, uri) ==
    LET textEditor == getTextEditor(p.registry, uri)
        logData == getLog(p.registry, uri)
    IN  IF logData = "missing" THEN [p |-> p, threw |-> TRUE]
        ELSE IF ~textEditor THEN [p |-> p, threw |-> TRUE]
        ELSE IF hasFilterPattern(logData)
        THEN LET p1 == [p EXCEPT !.decorationTypes = @ + 1]
             IN  [p |-> [p1 EXCEPT !.decorated =
                            Append(@, [uri |-> uri,
                                       type |-> p1.decorationTypes])],
                  threw |-> FALSE]
        ELSE [p |-> p, threw |-> FALSE]

\* the provider as its constructor leaves it, over a registry
NewProvider(registry) ==
    [registry |-> registry, registryFired |-> <<>>, fired |-> <<>>,
     decorationTypes |-> 0, decorated |-> <<>>,
     call |-> [op |-> "new", uri |-> "", threw |-> FALSE]]

ProviderIdle ==
    provider = NewProvider([u \in DocumentUris |->
                                [log |-> "missing", editor |-> FALSE]])

\* The registry changes what it holds for a URI and fires onDidChange.
RegistryChange ==
    \E uri \in DocumentUris, entry \in RegistryEntries :
        /\ Len(provider.registryFired) < MaxEvents
        /\ provider' = [registryFire([provider EXCEPT !.registry[uri] = entry],
                                     uri)
                          EXCEPT !.call = [op |-> "change", uri |-> uri,
                                           threw |-> FALSE]]
        /\ UNCHANGED <<sessionVars, commandVars, uriVars, url,
                       bar, connect, calls>>

HighlightDocument ==
    \E uri \in DocumentUris :
        LET r == highlightDocument(provider, uri)
        IN  /\ r.p.decorationTypes <= MaxHighlights
            /\ provider' = [r.p EXCEPT !.call = [op |-> "highlight",
                                                 uri |-> uri,
                                                 threw |-> r.threw]]
            /\ UNCHANGED <<sessionVars, commandVars, uriVars, url,
                           bar, connect, calls>>

(***************************************************************************)
(* The status bar                                                          *)
(***************************************************************************)
\* what the status bar is given when no session is active
Undefined == <<"undefined">>

\* account labels of sessions; <<>> is the empty label
Labels == {<<>>, <<"alice">>, <<"bob">>, <<"carol">>}

\* nls localize(key, message, arg): the message with {0} replaced by arg
localize(message, arg) ==
    Join([i \in 1..Len(message) |->
            IF message[i] = "{0}" THEN arg ELSE <<message[i]>>], <<>>)

\* session?.accountDetails.label, for the provider's sessions b
activeLabel(b) ==
    IF b.active = NoSession THEN Undefined ELSE b.labels[b.active]

\* setCawsStatusbar substituting '-' only for an undefined username
setCawsStatusbar_nullish(b, username) ==
    [b EXCEPT !.text = localize(<<"CODE.AWS: ", "{0}">>,
                                IF username = Undefined
                                THEN <<"-">> ELSE username)]

\* lines 32-34; username is Undefined when the argument is left out
setCawsStatusbar(b, username) ==
    [b EXCEPT !.text = localize(<<"CODE.AWS: ", "{0}">>,
                                IF username = Undefined \/ username = <<>>
                                THEN <<"-">> ELSE username)]

\* lines 22-25: the function update of initStatusbar
update(b) == setCawsStatusbar(b, activeLabel(b))

\* lines 16-30: the item is created and shown, update runs once and is
\* registered as a listener of onDidChangeSessions
initStatusbar(b) == [update(b) EXCEPT !.shown = TRUE, !.listening = TRUE]

\* The provider's active session becomes act and the provider fires
\* onDidChangeSessions, which runs update if it is registered; events
\* records that an event has reached update.
onDidChangeSessions(b, act) ==
    LET b1 == [b EXCEPT !.active = act]
    IN  IF b1.listening THEN [update(b1) EXCEPT !.events = TRUE] ELSE b1

\* no status bar item, no session
NoBar ==
    [labels |-> [i \in SessionIds |-> <<>>], active |-> NoSession,
     shown |-> FALSE, listening |-> FALSE, text |-> <<>>, events |-> FALSE]

BarIdle == bar = NoBar

InitStatusbar ==
    /\ ~bar.shown
    /\ bar' = initStatusbar(bar)
    /\ UNCHANGED <<sessionVars, commandVars, uriVars, url,
                   provider, connect, calls>>

OnDidChangeSessions ==
    \E act \in SessionIds \cup {NoSession} :
        /\ act # bar.active
        /\ bar' = onDidChangeSessions(bar, act)
        /\ UNCHANGED <<sessionVars, commandVars, uriVars, url,
                       provider, connect, calls>>

(***************************************************************************)
(* The /connect/caws URI handler                                           *)
(***************************************************************************)
\* ids and names are strings: an organization may be named as a workspace id
WorkspaceIds == {"w1", "w2"}
OrgNames == {"o1", "w1"}
ProjectNames == {"p1", "p2"}

\* a query key that the URI does not have
Missing == "missing"

\* the development workspaces the service has
DevEnvs ==
    [id : WorkspaceIds, organizationName : OrgNames,
     projectName : ProjectNames]

\* no environment: what getDevEnv resolves to when it finds none
NoEnv == [id |-> "", organizationName |-> "", projectName |-> ""]

\* SearchParams.getFromKeysOrThrow: the values of the keys, or it throws
\* when the query does not have one of them
getFromKeysOrThrow(query, keys) ==
    LET threw == \E key \in keys : query[key] = Missing
    IN  [threw |-> threw,
         params |-> [key \in keys |-> IF threw THEN "" ELSE query[key]]]

\* lines 58-60
parseConnectParams(query) ==
    getFromKeysOrThrow(query, {"developmentWorkspaceId", "organizationName",
                               "projectName"})

\* ConnectedCawsClient.getDevEnv: the environment of that id in that
\* project of that organization, NoEnv if the service has none
getDevEnv(envs, args) ==
    IF \E e \in envs : e = args THEN args ELSE NoEnv

\* handleConnectParams up to its first await (lines 73-81): getDevEnv is
\* called.  k.getDevEnvCalls lists the arguments of the getDevEnv calls
\* made, k.opened the environments openDevEnv was called with, k.pc is the
\* await the handler stands at.
handleConnectParams(k, params) ==
    LET args == [projectName |-> params.projectName,
                 id |-> params.developmentWorkspaceId,
                 organizationName |-> params.developmentWorkspaceId]
    IN  [k EXCEPT !.getDevEnvCalls = Append(@, args), !.pc = "getDevEnv"]

\* openDevEnv up to its first await (commands.ts lines 147-155):
\* startEnvironmentWithProgress is called for the environment.  k.opened
\* lists the environments openDevEnv was called with.
openDevEnv(k, env) ==
    [k EXCEPT !.opened = Append(@, env), !.pc = "startEnvironmentWithProgress"]

\* handleConnectParams from the await of getDevEnv on (lines 77-87): env
\* is what getDevEnv resolved to
handleConnectParamsResume(k, env) ==
    IF env = NoEnv THEN [k EXCEPT !.threw = TRUE, !.pc = "done"]
    ELSE openDevEnv(k, env)

\* the await of getDevEnv (line 77) throws what getDevEnv rejected with:
\* the handler rejects before it has an environment
handleConnectParamsThrows(k) == [k EXCEPT !.threw = TRUE, !.pc = "done"]

\* how an await of openDevEnv can end: the promise rejects, it resolves to
\* undefined, or it resolves to a value
AwaitOutcomes == {"rejected", "undefined", "value"}

\* openDevEnv from the await of startEnvironmentWithProgress on (lines
\* 148-161): without a running environment it logs an error and returns
openDevEnvStarted(k, out) ==
    IF out = "rejected" THEN [k EXCEPT !.threw = TRUE, !.pc = "done"]
    ELSE IF out = "undefined"
    THEN [k EXCEPT !.errorsLogged = @ + 1, !.pc = "done"]
    ELSE [k EXCEPT !.pc = "ensureDependencies"]

\* openDevEnv from the await of ensureDependencies on (lines 161-178):
\* without the dependencies it returns, with them it starts the remote
\* session for the environment
openDevEnvDependencies(k, out) ==
    IF out = "rejected" THEN [k EXCEPT !.threw = TRUE, !.pc = "done"]
    ELSE IF out = "undefined" THEN [k EXCEPT !.pc = "done"]
    ELSE [k EXCEPT !.remotes = Append(@, k.opened[Len(k.opened)]),
                   !.pc = "startVscodeRemote"]

\* openDevEnv from the await of startVscodeRemote on (lines 178-179); the
\* session process rejects on an error exit code
openDevEnvRemote(k, out) ==
    IF out = "rejected" THEN [k EXCEPT !.threw = TRUE, !.pc = "done"]
    ELSE [k EXCEPT !.pc = "done"]

\* the parameters before the query is parsed
NoParams ==
    [developmentWorkspaceId |-> "", organizationName |-> "",
     projectName |-> ""]

\* a /connect/caws URI that has arrived, and the service's environments
NewConnect(query, envs) ==
    [query |-> query, envs |-> envs, parsed |-> FALSE, handled |-> FALSE,
     params |-> NoParams, pc |-> "idle",
     getDevEnvCalls |-> <<>>, opened |-> <<>>, remotes |-> <<>>,
     errorsLogged |-> 0, threw |-> FALSE]

ConnectIdle ==
    connect = NewConnect([developmentWorkspaceId |-> Missing,
                          organizationName |-> Missing,
                          projectName |-> Missing], {})

\* the URI handler parses the query of the URI
ParseConnectParams ==
    /\ ~connect.parsed
    /\ connect' = [connect EXCEPT !.parsed = TRUE,
                       !.params = parseConnectParams(connect.query).params,
                       !.threw = parseConnectParams(connect.query).threw]
    /\ UNCHANGED <<sessionVars, commandVars, uriVars, url,
                   provider, bar, calls>>

\* and calls the handler with the parameters, unless the parser threw
HandleConnectParams ==
    /\ connect.parsed /\ ~connect.threw /\ connect.pc = "idle"
    /\ connect' = handleConnectParams(connect, connect.params)
    /\ UNCHANGED <<sessionVars, commandVars, uriVars, url,
                   provider, bar, calls>>

\* getDevEnv settles for the handler: it resolves to what the service
\* has, or it rejects
GetDevEnvSettles ==
    /\ connect.pc = "getDevEnv"
    /\ \E resolved \in BOOLEAN :
        LET args == connect.getDevEnvCalls[Len(connect.getDevEnvCalls)]
            k == IF resolved
                 THEN handleConnectParamsResume(connect,
                                          getDevEnv(connect.envs, args))
                 ELSE handleConnectParamsThrows(connect)
        IN  connect' = [k EXCEPT !.handled = (k.pc = "done")]
    /\ UNCHANGED <<sessionVars, commandVars, uriVars, url,
                   provider, bar, calls>>

\* startEnvironmentWithProgress settles for openDevEnv
StartEnvironmentSettles ==
    \E out \in AwaitOutcomes :
        /\ connect.pc = "startEnvironmentWithProgress"
        /\ LET k == openDevEnvStarted(connect, out)
           IN  connect' = [k EXCEPT !.handled = (k.pc = "done")]
        /\ UNCHANGED <<sessionVars, commandVars, uriVars, url,
                       provider, bar, calls>>

\* ensureDependencies settles for openDevEnv
EnsureDependenciesSettles ==
    \E out \in AwaitOutcomes :
        /\ connect.pc = "ensureDependencies"
        /\ LET k == openDevEnvDependencies(connect, out)
           IN  connect' = [k EXCEPT !.handled = (k.pc = "done")]
        /\ UNCHANGED <<sessionVars, commandVars, uriVars, url,
                       provider, bar, calls>>

\* startVscodeRemote settles for openDevEnv, and the handler with it
StartVscodeRemoteSettles ==
    \E out \in AwaitOutcomes \ {"undefined"} :
        /\ connect.pc = "startVscodeRemote"
        /\ connect' = [openDevEnvRemote(connect, out) EXCEPT !.handled = TRUE]
        /\ UNCHANGED <<sessionVars, commandVars, uriVars, url,
                       provider, bar, calls>>

\* the adapters before anything has happened to them
AdaptersIdle == ProviderIdle /\ BarIdle /\ ConnectIdle /\ CallsIdle

(***************************************************************************)
(* CloudWatch Logs URIs: the documents tried                               *)
(***************************************************************************)
\* names of log groups and regions: plain, with the separator, empty, and
\* one with a percent escape
NameChars == CharsOf(Text("a:"))
GroupNames == SeqsOf(NameChars, 0, MaxNameLen) \cup {Text("%3A")}
RegionNames == SeqsOf(NameChars, 0, 1)

\* an object of one property
Record(name, value) == Object(<<<<Text(name), value>>>>)

\* an object of two properties, in that order
Record2(n1, v1, n2, v2) == Object(<<<<Text(n1), v1>>, <<Text(n2), v2>>>>)

\* parameters: none, a streamName that is a string or undefined, a limit
\* that is a number or null, and two properties in either order
ParameterSets ==
    {Object(<<>>),
     Record("streamName", String(Text("s"))),
     Record("streamName", undefined),
     Record("limit", Number(0)),
     Record("limit", NegativeZero),
     Record("limit", NaN),
     Record("limit", Literal("null")),
     Record2("streamName", String(Text("s")), "limit", Number(10)),
     Record2("limit", Number(10), "streamName", String(Text("s")))}

\* what createURIFromArgs is called with
UriArgs ==
    [logGroupInfo : [groupName : GroupNames, regionName : RegionNames],
     parameters : ParameterSets]

NoArgs ==
    [logGroupInfo |-> [groupName |-> <<>>, regionName |-> <<>>],
     parameters |-> Object(<<>>)]

\* a document before its URI is made
NoDocument == [args |-> NoArgs, made |-> FALSE, uri |-> UriError]

UriIdle == uriA = NoDocument /\ uriB = NoDocument

\* a document: the arguments and the URI createURIFromArgs made of them
Document(args) ==
    [args |-> args, made |-> TRUE,
     uri |-> createURIFromArgs(args.logGroupInfo, args.parameters)]

\* the URI of one document is made
CreateURIFromArgsA ==
    /\ ~uriA.made
    /\ \E args \in UriArgs : uriA' = Document(args)
    /\ UNCHANGED <<sessionVars, commandVars, uriB, url, adapterVars>>

\* and the URI of another
CreateURIFromArgsB ==
    /\ ~uriB.made
    /\ \E args \in UriArgs : uriB' = Document(args)
    /\ UNCHANGED <<sessionVars, commandVars, uriA, url, adapterVars>>

InitUri == SessionInit /\ CommandsIdle /\ UriIdle /\ UrlIdle /\ AdaptersIdle

NextUri == CreateURIFromArgsA \/ CreateURIFromArgsB

SpecUri == InitUri /\ [][NextUri]_vars

(***************************************************************************)
(* Session: the state machine.  preloader and send are async: a call runs  *)
(* up to an await in one step and resumes in a later one, and between the  *)
(* two any other call may start, resume or run.  initCodegen and           *)
(* decreaseRetries have no await and run in one step.                      *)
(***************************************************************************)
Config == [s |-> session, w |-> world]

WithinBounds(c) ==
    /\ c.w.nextToken <= MaxTokens
    /\ c.w.createConversationCalls <= MaxCreateCalls
    /\ c.w.callsMade <= MaxCalls
    /\ (approachRetryLimit - c.s.approachRetries)
            + (codeGenRetryLimit - c.s.codeGenRetries) <= MaxDecrease
    /\ (c.s.approachRetries < approachRetryLimit
            \/ c.s.codeGenRetries < codeGenRetryLimit) =>
                c.w.callsMade <= MaxRetryCalls

\* the calls in flight
InFlight == BagToSet(calls)

Suspend(call) == calls (+) SetToBag({call})

Settle(call) == calls (-) SetToBag({call})

\* last records the step just taken: the call it belongs to (op, and msg
\* for a preloader call), the await the call resumed from (pc, "call" when
\* the call starts), how the step went (kind), whether the call threw, and
\* for a step change the approach the replaced state held (approach).
Commit(c, cs, op, pc, msg, kind, threw, approach) ==
    /\ WithinBounds(c)
    /\ session' = c.s
    /\ world' = c.w
    /\ calls' = cs
    /\ last' = [op |-> op, pc |-> pc, msg |-> msg, threw |-> threw,
                kind |-> kind, approach |-> approach]
    /\ UNCHANGED <<commandVars, uriVars, url, provider, bar, connect>>

\* what createConversation can do: reject, or resolve to an id
CreateOutcomes == {[ok |-> FALSE, id |-> ""]} \cup [ok : {TRUE}, id : ConvIds]

\* how the await of createConversation ends: it rejects, it resolves to a
\* falsy id, or the conversation is created
PreloaderKind(cc) ==
    IF ~cc.ok THEN "failed"
    ELSE IF cc.id = "" THEN "emptyId" ELSE "created"

\* preloader(msg) is called.  world.preloaderCompleted records that some
\* preloader call has returned without throwing.
Preloader ==
    \E msg \in Msgs :
        LET b == preloaderBegin(Config, msg)
            c1 == [b.c EXCEPT !.w.callsMade = @ + 1,
                              !.w.preloaderCompleted = @ \/ ~b.awaiting]
        IN  IF b.awaiting
            THEN Commit(c1,
                        Suspend(AwaitCall("preloader", "createConversation",
                                          msg)),
                        "preloader", "call", msg, "awaiting", FALSE, "")
            ELSE Commit(c1, calls, "preloader", "call", msg, "skipped",
                        FALSE, "")

\* createConversation settles for a preloader call that awaits it
CreateConversationSettles ==
    \E call \in InFlight, cc \in CreateOutcomes :
        /\ call.op = "preloader" /\ call.pc = "createConversation"
        /\ LET r == setupConversationResume(Config, cc)
           IN  Commit(r.c,
                      IF r.threw THEN Settle(call)
                      ELSE Settle(call)
                            (+) SetToBag({AwaitCall("preloader",
                                                    "setupConversation", "")}),
                      "preloader", "createConversation", call.msg,
                      PreloaderKind(cc), r.threw, "")

\* a preloader call resumes after its setupConversation has returned
PreloaderResume ==
    \E call \in InFlight :
        /\ call.op = "preloader" /\ call.pc = "setupConversation"
        /\ LET r == preloaderResume(Config)
               c1 == [r.c EXCEPT !.w.preloaderCompleted = @ \/ ~r.threw]
           IN  Commit(c1, Settle(call), "preloader", "setupConversation",
                      "", IF r.threw THEN "lostId" ELSE "finished",
                      r.threw, "")

InitCodegen ==
    LET r == initCodegen(Config)
    IN  Commit(r.c, calls, "initCodegen", "call", "", "none", r.threw, "")

\* send(msg) is called
Send ==
    \E msg \in Msgs :
        Commit([send(Config, msg) EXCEPT !.w.callsMade = @ + 1],
               Suspend(AwaitCall("send", "collectFiles", "")),
               "send", "call", "", "awaiting", FALSE, "")

\* collectFiles settles for a send call: it resolves and the call calls
\* interact, or it rejects and the call throws
CollectFilesSettles ==
    \E call \in InFlight, resolved \in BOOLEAN :
        /\ call.op = "send" /\ call.pc = "collectFiles"
        /\ IF resolved
           THEN Commit(Config,
                       Settle(call) (+) SetToBag({interactCall(Config, call)}),
                       "send", "collectFiles", "", "interacting", FALSE, "")
           ELSE Commit(Config, Settle(call),
                       "send", "collectFiles", "", "throw", TRUE, "")

\* interact settles for a send call
InteractSettles ==
    \E call \in InFlight :
        /\ call.op = "send" /\ call.pc = "interact"
        /\ \E io \in InteractOutcomes([name |-> call.name, approach |-> ""]) :
            LET r == nextInteraction(Config, call, io)
            IN  Commit(r.c, Settle(call), "send", "interact", "", io.kind,
                       r.threw,
                       IF io.kind = "next"
                       THEN interacted(Config, call, io).s.state.approach
                       ELSE "")

DecreaseRetries ==
    Commit([Config EXCEPT !.s = decreaseRetries(session)], calls,
           "decreaseRetries", "call", "", "none", FALSE, "")

Init == SessionInit /\ CommandsIdle /\ UriIdle /\ UrlIdle /\ AdaptersIdle

Next ==
    \/ Preloader \/ CreateConversationSettles \/ PreloaderResume
    \/ Send \/ CollectFilesSettles \/ InteractSettles
    \/ InitCodegen \/ DecreaseRetries

Spec == Init /\ [][Next]_vars

(***************************************************************************)
(* Properties of the Session                                               *)
(***************************************************************************)

\* C1: a Session starts in ConversationNotStarted, and no step of a call
\* moves its state to an earlier named state or from ConversationNotStarted
\* straight to PrepareCodeGen.
C1_LinearOrder ==
    /\ session.state.name = "ConversationNotStarted"
    /\ [][/\ Rank(session'.state.name) >= Rank(session.state.name)
          /\ ~(/\ session.state.name = "ConversationNotStarted"
               /\ session'.state.name = "PrepareCodeGen")]_vars

\* C2: a send whose interaction returned a nextState cancels the token
\* source of the state the Session holds, and of no other state, and then
\* replaces that state; a send whose interaction returned none cancels
\* nothing and keeps the state object; and no other step cancels a token
\* source.
C2_CancelOnStepChange ==
    [][/\ last'.op = "send" /\ last'.pc = "interact" /\ ~last'.threw =>
            IF last'.kind = "next"
            THEN /\ world'.cancelled
                        = world.cancelled \cup {session.state.token}
                 /\ session'.state.token # session.state.token
                 /\ session'.state.token \notin world'.cancelled
            ELSE /\ world'.cancelled = world.cancelled
                 /\ session'.state.token = session.state.token
                 /\ session'.state.name = session.state.name
       /\ world'.cancelled # world.cancelled =>
            /\ last'.op = "send" /\ last'.pc = "interact"
            /\ last'.kind = "next"]_vars

\* a step change has cancelled the token of the state it left
C2_Witness ==
    /\ last.op = "send"
    /\ last.pc = "interact"
    /\ last.kind = "next"
    /\ world.cancelled # {}
    /\ session.state.token \notin world.cancelled

\* C3: both counters start at their limits, no call raises either, and a
\* decreaseRetries call in phase Approach or Codegen lowers that phase's
\* counter by one and leaves the other alone.
C3_RetryBudget ==
    /\ session.approachRetries = approachRetryLimit
    /\ session.codeGenRetries = codeGenRetryLimit
    /\ [][/\ session'.approachRetries <= session.approachRetries
          /\ session'.codeGenRetries <= session.codeGenRetries
          /\ last'.op # "decreaseRetries" =>
                /\ session'.approachRetries = session.approachRetries
                /\ session'.codeGenRetries = session.codeGenRetries
          /\ last'.op = "decreaseRetries" /\ session.state.phase = "Approach" =>
                /\ session'.approachRetries = session.approachRetries - 1
                /\ session'.codeGenRetries = session.codeGenRetries
          /\ last'.op = "decreaseRetries" /\ session.state.phase = "Codegen" =>
                /\ session'.codeGenRetries = session.codeGenRetries - 1
                /\ session'.approachRetries = session.approachRetries]_vars

\* both budgets have been drawn on, the Codegen one last
C3_Witness ==
    /\ last.op = "decreaseRetries"
    /\ session.state.phase = "Codegen"
    /\ session.codeGenRetries < codeGenRetryLimit
    /\ session.approachRetries < approachRetryLimit

\* C5: once a preloader call has returned without throwing, a preloader
\* call made from then on returns at once: it calls createConversation no
\* more, keeps the state and the conversation id, and emits no startChat
\* telemetry or progress event.
C5_PreloaderOnce ==
    [][(/\ world.preloaderCompleted
        /\ last'.op = "preloader"
        /\ last'.pc = "call") =>
         /\ last'.kind = "skipped"
         /\ ~last'.threw
         /\ calls' = calls
         /\ session'.state = session.state
         /\ session'.conversationId = session.conversationId
         /\ world'.createConversationCalls = world.createConversationCalls
         /\ world'.startChatEmits = world.startChatEmits
         /\ world'.progressEvents = world.progressEvents]_vars

\* a preloader call made after one that completed
C5_Witness ==
    /\ last.op = "preloader"
    /\ last.pc = "call"
    /\ last.kind = "skipped"
    /\ world.startChatEmits = 1

\* C6: when the createConversation of a preloader(msg) call rejects, the
\* call throws and latestMessage = msg, the state is ConversationNotStarted,
\* there is no conversation id and preloaderFinished is false; and a
\* preloader call made next calls createConversation again.
C6_FailedPreloaderRetryable ==
    [][/\ last'.op = "preloader" /\ last'.kind = "failed" =>
            /\ last'.threw
            /\ session'.latestMessage = last'.msg
            /\ session'.state.name = "ConversationNotStarted"
            /\ session'.conversationId = ""
            /\ ~session'.preloaderFinished
       /\ last.op = "preloader" /\ last.kind = "failed"
            /\ last'.op = "preloader" /\ last'.pc = "call" =>
            world'.createConversationCalls
                = world.createConversationCalls + 1]_vars

\* C16: createConversation is called at most once, and a conversation id
\* that is set is never replaced by another.
C16_OneConversation ==
    [][/\ world'.createConversationCalls <= 1
       /\ session.conversationId # "" =>
            session'.conversationId = session.conversationId]_vars

\* C17: a send whose interaction returned a nextState leaves the Session's
\* approach and the new state's approach equal to the approach the state
\* it replaces held when the interaction resolved; every other step of a
\* send leaves the Session's approach as it was.
C17_ApproachSurvives ==
    [][last'.op = "send" =>
         IF last'.pc = "interact" /\ ~last'.threw /\ last'.kind = "next"
         THEN /\ session'.approach = last'.approach
              /\ session'.state.approach = last'.approach
              /\ session'.state.token # session.state.token
         ELSE session'.approach = session.approach]_vars

\* a step change carried over the approach the interaction had left in
\* the state it replaced
C17_Witness ==
    /\ last.op = "send"
    /\ last.pc = "interact"
    /\ last.kind = "next"
    /\ last.approach = "plan"
    /\ session.approach = "plan"
    /\ session.state.approach = "plan"
    /\ session.state.name = "PrepareRefinement"

\* C18: the value retries returns is at least 0 and at most the limit of
\* the current phase.
C18_RetriesInRange ==
    /\ retries(session) >= 0
    /\ retries(session) <= (IF session.state.phase = "Codegen"
                            THEN codeGenRetryLimit ELSE approachRetryLimit)

(***************************************************************************)
(* Commands: the state machine                                             *)
(***************************************************************************)
InitCommands == SessionInit /\ CommandsInit /\ UriIdle /\ UrlIdle /\ AdaptersIdle

NextCommands ==
    \/ LoginCommand \/ WithClient \/ BindClient \/ LogoutCommand
    \/ DeleteSessionSettles
    \/ ClientFactorySettles \/ WizardSettles \/ SetCredentialsSettles
    \/ LoginReturns \/ CommandSettles

SpecCommands == InitCommands /\ [][NextCommands]_vars

(***************************************************************************)
(* Properties of the injector                                              *)
(***************************************************************************)

\* C4: no call makes more than one login attempt; a call whose
\* clientFactory rejected has no client, makes no login, calls no command
\* and shows no message; a call of withClient (a call of a bound command
\* is one) that gets a client that is not connected has made one login
\* attempt when it settles; it shows the error message if and only if that
\* login returned 'Failed'; when the login returned 'Cancelled', or
\* 'Succeeded' with the client still not connected, the command is not
\* called, no message is shown and the call resolves to undefined; and
\* when the login rejected, the command is not called and the call rejects.
C4_OneLoginNoRetry ==
    /\ cmd.loginAttempts <= 1
    /\ ~cmd.hasClient =>
            /\ cmd.loginAttempts = 0
            /\ cmd.commandRuns = 0
            /\ cmd.errorsShown = 0
    /\ (/\ cmd.op = "withClient"
        /\ cmd.hasClient
        /\ ~cmd.connectedBefore) => cmd.loginAttempts = 1
    /\ (/\ cmd.op = "withClient"
        /\ cmd.pc = "done"
        /\ cmd.hasClient
        /\ ~cmd.connectedBefore) =>
            /\ cmd.errorsShown \in {0, 1}
            /\ (cmd.errorsShown = 1) <=> (cmd.loginResult = "Failed")
            /\ (\/ cmd.loginResult = "Cancelled"
                \/ (cmd.loginResult = "Succeeded" /\ ~cmd.connected))
               => (/\ cmd.commandRuns = 0
                   /\ cmd.errorsShown = 0
                   /\ cmd.result = "undefined")
            /\ (cmd.loginResult = "rejected")
               => (/\ cmd.commandRuns = 0
                   /\ cmd.result = "threw")

\* a login that succeeded and left the client not connected
C4_Witness ==
    /\ cmd.op = "withClient"
    /\ cmd.pc = "done"
    /\ cmd.hasClient
    /\ ~cmd.connectedBefore
    /\ cmd.loginResult = "Succeeded"
    /\ ~cmd.connected
    /\ cmd.commandRuns = 0

\* C14: a call of withClient, or of a command bound with bindClient, calls
\* the command at most once, and only with a client that is connected when
\* it is called: one that was connected from the start, or one that a
\* login that returned 'Succeeded' left connected.  A call whose
\* clientFactory or login rejected calls no command.
C14_CommandNeedsConnectedClient ==
    cmd.op = "withClient" =>
        /\ cmd.commandConnected \subseteq {TRUE}
        /\ cmd.commandRuns <= 1
        /\ (cmd.commandRuns = 1) =>
                /\ cmd.hasClient
                /\ cmd.connected
                /\ (cmd.connectedBefore \/ cmd.loginResult = "Succeeded")
        /\ cmd.connectedBefore => cmd.loginAttempts = 0

\* the command ran after a login connected the client
C14_Witness ==
    /\ cmd.op = "withClient"
    /\ cmd.pc = "done"
    /\ cmd.hasClient
    /\ ~cmd.connectedBefore
    /\ cmd.loginResult = "Succeeded"
    /\ cmd.commandRuns = 1

\* the login of the call c has just returned or rejected
LoginReturned(c) ==
    \/ c.op = "login" /\ c.pc = "done" /\ c.hasClient
    \/ c.pc = "login"

\* C15: a login calls deleteSession, and then for the session that was
\* active when it started and for no other, if and only if the wizard
\* returned a session of another id and setCredentials succeeded; a login
\* that returns 'Cancelled', or that rejects, has not called
\* setCredentials; a login that returns 'Succeeded' has called it with
\* success; a login that returns 'Cancelled', or 'Failed' because
\* setCredentials threw, has called deleteSession for no session; and a
\* session leaves the provider only through a deleteSession that a logout
\* or such a login called.
C15_DeleteOnlyAfterSwitch ==
    [][/\ LoginReturned(cmd') =>
            LET switched == /\ cmd'.lastSession # NoSession
                            /\ cmd'.wizardSession # NoSession
                            /\ cmd'.wizardSession # cmd'.lastSession
                            /\ cmd'.credentialsSet
            IN  /\ cmd'.deleted = (IF switched THEN {cmd'.lastSession} ELSE {})
                /\ cmd'.credentialsSet =>
                        (/\ cmd'.setCredentialsCalls = 1
                         /\ cmd'.wizardSession # NoSession)
                /\ (cmd'.loginResult \in {"Cancelled", "rejected"}) =>
                        (/\ cmd'.setCredentialsCalls = 0
                         /\ cmd'.deleted = {})
                /\ (cmd'.loginResult = "Succeeded") => cmd'.credentialsSet
                /\ (cmd'.loginResult = "Failed" /\ ~cmd'.credentialsSet) =>
                        (/\ cmd'.setCredentialsCalls = 1
                         /\ cmd'.deleted = {})
       /\ auth.sessions \ auth'.sessions \subseteq
                auth.deleting \cup cmd'.deleted
       /\ auth'.deleting \ auth.deleting \subseteq cmd'.deleted
       /\ cmd'.deleted # {} =>
            (cmd'.op = "logout" \/ LoginReturned(cmd'))]_vars

\* a login switched from one session to another and deleted the first
C15_Witness ==
    /\ cmd.op = "login"
    /\ cmd.pc = "done"
    /\ cmd.loginResult = "Succeeded"
    /\ cmd.lastSession # NoSession
    /\ cmd.wizardSession # cmd.lastSession
    /\ cmd.credentialsSet
    /\ cmd.deleted = {cmd.lastSession}
    /\ cmd.lastSession \notin auth.sessions

(***************************************************************************)
(* Properties of the CloudWatch Logs URIs                                  *)
(***************************************************************************)
\* whether two calls of createURIFromArgs have the same arguments
SameArgs(a, b) ==
    /\ a.logGroupInfo = b.logGroupInfo
    /\ deepStrictEqual(a.parameters, b.parameters)

InitUrl ==
    /\ SessionInit /\ CommandsIdle /\ UriIdle /\ AdaptersIdle
    /\ \E r \in CawsOrgs \cup CawsProjects \cup CawsRepos :
            url = [resource |-> r, made |-> FALSE, result |-> <<>>]

NextUrl == ToCawsUrl

SpecUrl == InitUrl /\ [][NextUrl]_vars

\* C10: the URL of an org is https://<cawsHostname>/organizations/<org
\* name>/view, a project adds /projects/<project name> and a repo
\* /source-repositories/<repo name> before /view; no id appears in it.
C10_UrlFromNesting ==
    url.made =>
        LET r == url.resource
            isRepo == r \in CawsRepos
            isProject == r \in CawsProjects
            orgName == IF isRepo \/ isProject THEN r.org.name ELSE r.name
            organizations == <<"https://", cawsHostname, "/organizations/", orgName>>
            projects == IF isRepo THEN <<"/projects/", r.project.name>>
                        ELSE IF isProject THEN <<"/projects/", r.name>>
                        ELSE <<>>
            repositories == IF isRepo THEN <<"/source-repositories/", r.name>>
                            ELSE <<>>
        IN  /\ url.result = organizations \o projects \o repositories \o <<"/view">>
            /\ \A i \in 1..Len(url.result) : url.result[i] \notin ResourceIds

\* the URL of a repo was made
C10_Witness ==
    /\ url.made
    /\ url.resource \in CawsRepos
    /\ url.resource.name # url.resource.project.name
    /\ Len(url.result) = 9

(***************************************************************************)
(* The document provider: the state machine and its properties             *)
(***************************************************************************)
InitProvider ==
    /\ SessionInit /\ CommandsIdle /\ UriIdle /\ UrlIdle
    /\ BarIdle /\ ConnectIdle /\ CallsIdle
    /\ \E registry \in [DocumentUris -> RegistryEntries] :
            provider = NewProvider(registry)

NextProvider == RegistryChange \/ HighlightDocument

SpecProvider == InitProvider /\ [][NextProvider]_vars

\* C11: the change events the provider has fired are the change events
\* the registry has fired: the same URIs, as many times, in the same order.
C11_ForwardsOneForOne == provider.fired = provider.registryFired

\* the registry fired for one URI twice in a row and then for the other
C11_Witness ==
    /\ Len(provider.registryFired) = 3
    /\ provider.registryFired[1] = provider.registryFired[2]
    /\ provider.registryFired[3] # provider.registryFired[2]
    /\ Len(provider.fired) = 3

\* C13: a highlightDocument call for a URI of which the registry has no
\* log data, or no text editor, throws and creates and applies no
\* decoration; any other call returns, and it creates one decoration type
\* and applies it to the editor of that URI if the parameters of the log
\* data carry a filterPattern, and creates and applies none if not.
C13_HighlightFailsClean ==
    [][provider'.call.op = "highlight" =>
         LET uri == provider'.call.uri
             entry == provider.registry[uri]
         IN  /\ provider'.registry = provider.registry
             /\ IF entry.log = "missing" \/ ~entry.editor
                THEN /\ provider'.call.threw
                     /\ provider'.decorationTypes = provider.decorationTypes
                     /\ provider'.decorated = provider.decorated
                ELSE /\ ~provider'.call.threw
                     /\ IF entry.log = "filter"
                        THEN /\ provider'.decorationTypes
                                    = provider.decorationTypes + 1
                             /\ provider'.decorated
                                    = Append(provider.decorated,
                                         [uri |-> uri,
                                          type |-> provider'.decorationTypes])
                        ELSE /\ provider'.decorationTypes
                                    = provider.decorationTypes
                             /\ provider'.decorated = provider.decorated]_vars

\* a call threw for a missing editor after another call had decorated
C13_Witness ==
    /\ provider.call.op = "highlight"
    /\ provider.call.threw
    /\ provider.registry[provider.call.uri].log = "filter"
    /\ ~provider.registry[provider.call.uri].editor
    /\ provider.decorationTypes = 1
    /\ Len(provider.decorated) = 1

(***************************************************************************)
(* The status bar: the state machine and its properties                    *)
(***************************************************************************)
\* the provider's sessions have any labels, and any of them may be active
\* when the extension starts
InitBar ==
    /\ SessionInit /\ CommandsIdle /\ UriIdle /\ UrlIdle
    /\ ProviderIdle /\ ConnectIdle /\ CallsIdle
    /\ \E labels \in [SessionIds -> Labels], act \in SessionIds \cup {NoSession} :
            bar = [NoBar EXCEPT !.labels = labels, !.active = act]

NextBar == InitStatusbar \/ OnDidChangeSessions

SpecBar == InitBar /\ [][NextBar]_vars

\* C12: once initStatusbar has run, the text of the item is 'CODE.AWS: '
\* followed by the label of the active session, or by '-' when no session
\* is active or the label of the active one is empty.
C12_TextReflectsSession ==
    bar.shown =>
        bar.text = IF bar.active = NoSession \/ bar.labels[bar.active] = <<>>
                   THEN <<"CODE.AWS: ", "-">>
                   ELSE <<"CODE.AWS: ">> \o bar.labels[bar.active]

\* after initStatusbar the active session changed to one of an empty label
C12_Witness ==
    /\ bar.shown
    /\ bar.events
    /\ bar.active # NoSession
    /\ bar.labels[bar.active] = <<>>
    /\ \E i \in SessionIds : bar.labels[i] # <<>>

(***************************************************************************)
(* The /connect/caws URI handler: the state machine and its properties     *)
(***************************************************************************)
\* a URI of any query arrives; the service has any environments
InitConnect ==
    /\ SessionInit /\ CommandsIdle /\ UriIdle /\ UrlIdle
    /\ ProviderIdle /\ BarIdle /\ CallsIdle
    /\ \E query \in [developmentWorkspaceId : WorkspaceIds \cup {Missing},
                      organizationName : OrgNames \cup {Missing},
                      projectName : ProjectNames \cup {Missing}],
          envs \in SUBSET DevEnvs :
            connect = NewConnect(query, envs)

NextConnect ==
    \/ ParseConnectParams \/ HandleConnectParams
    \/ GetDevEnvSettles \/ StartEnvironmentSettles
    \/ EnsureDependenciesSettles \/ StartVscodeRemoteSettles

SpecConnect == InitConnect /\ [][NextConnect]_vars

\* C19: handleConnectParams calls getDevEnv once, with the id, the project
\* name and the organization name of the URI; it throws if the service has
\* no such environment, and it calls openDevEnv only with an environment
\* the service has.
C19_LooksUpNamedWorkspace ==
    connect.handled =>
        LET named == [id |-> connect.query.developmentWorkspaceId,
                      organizationName |-> connect.query.organizationName,
                      projectName |-> connect.query.projectName]
        IN  /\ connect.getDevEnvCalls = <<named>>
            /\ named \notin connect.envs
                    => connect.threw /\ connect.opened = <<>>
            /\ \A i \in 1..Len(connect.opened) :
                    connect.opened[i] \in connect.envs
====
